---- MODULE Spec2Model ----
(***************************************************************************)
(* Model of systemrobustness: the orchestrator f_to_R (robustness/calc.py) *)
(* with its helpers sort_f_df and get_f_df_details, and the T1 / T3        *)
(* transforms of robustness/metrics/transforms.                           *)
(*                                                                         *)
(* A table (pandas.DataFrame) is a record [cols, rows]: the set of its     *)
(* value columns and the sequence of its rows in positional order; a row   *)
(* is [s_idx, l_idx, vals], vals mapping each column of the table to the   *)
(* row's value.  A matrix (numpy 2-d array) is a sequence of rows, each a  *)
(* sequence of integers.  Floating-point results (means, quotients) are    *)
(* kept as exact fractions [num, den].                                     *)
(***************************************************************************)
EXTENDS Integers, Sequences, FiniteSets, TLC

VARIABLES
    f_df,      \* the caller's table, the argument f_df of f_to_R
    R_dict,    \* the caller's metric specification, in insertion order
    pc,        \* position in f_to_R: idle, check_f, sort, details, loop, done
    df,        \* the local name f_df of f_to_R after line 57
    s_idxs,    \* local s_idxs of f_to_R (line 61)
    l_idxs,    \* local l_idxs of f_to_R (line 61)
    i,         \* index of the next metric of the loop at line 65
    R,         \* the local dict R of f_to_R, in insertion order
    calls,     \* the invocations of the metrics' func so far (line 78)
    outcome,   \* running, returned, or failed (an exception left f_to_R)
    error,     \* which statement raised, none otherwise
    ret,       \* the mapping f_to_R returned (line 79)
    tcase,     \* input of a direct call of a T1 / T3 function
    tout       \* its result

vars == <<f_df, R_dict, pc, df, s_idxs, l_idxs, i, R, calls, outcome, error,
          ret, tcase, tout>>

orchVars == <<f_df, R_dict, pc, df, s_idxs, l_idxs, i, R, calls, outcome,
              error, ret>>

(***************************************************************************)
(* Bounds of the model.                                                    *)
(***************************************************************************)
MaxRows == 4        \* most rows of an enumerated table
MaxMetrics == 2     \* most metrics of an enumerated R_dict
BigId == 200000     \* a decision-alternative id large enough for rtol
MaxCols == 5        \* most columns of a directly supplied matrix
MaxVal == 1         \* entries of directly supplied matrices: -MaxVal..MaxVal

SIds == {0, 1}
LIds == {0, BigId, BigId + 1}
ColNames == {"return", "cost", "values"}

(***************************************************************************)
(* Generic helpers.                                                        *)
(***************************************************************************)
Abs(x) == IF x < 0 THEN -x ELSE x

RECURSIVE SumSeq(_)
SumSeq(s) == IF s = <<>> THEN 0 ELSE s[1] + SumSeq(Tail(s))

Range(s) == {s[k] : k \in DOMAIN s}

\* A float result kept exactly.
Frac(n, d) == [num |-> n, den |-> d]
FracEq(a, b) == a.num * b.den = b.num * a.den
VecEq(u, v) ==
    /\ Len(u) = Len(v)
    /\ \A k \in 1..Len(u) : FracEq(u[k], v[k])
IntVec(v) == [k \in 1..Len(v) |-> Frac(v[k], 1)]

\* Shape of a matrix.
NRows(f) == Len(f)
NCols(f) == IF Len(f) = 0 THEN 0 ELSE Len(f[1])

\* The outcome of a call that may raise.
Ok(v) == [ok |-> TRUE, err |-> "none", val |-> v]
Raise(e) == [ok |-> FALSE, err |-> e, val |-> <<>>]

(***************************************************************************)
(* T1: performance transforms (metrics/transforms/t1.py).                  *)
(***************************************************************************)
Neg(f) == [r \in 1..Len(f) |-> [c \in 1..Len(f[r]) |-> -f[r][c]]]

\* identity with the maximise flag ignored.
identity_always_f(f, maximise) == f

\* t1.identity
identity(f, maximise) == IF maximise THEN f ELSE Neg(f)

\* np.amax(f, axis=0): the maximum of every column (f has a row).
RECURSIVE MaxSeq(_)
MaxSeq(s) ==
    IF Len(s) = 1 THEN s[1]
    ELSE LET m == MaxSeq(Tail(s)) IN IF s[1] >= m THEN s[1] ELSE m

Column(f, c) == [r \in 1..Len(f) |-> f[r][c]]

RECURSIVE MinSeq(_)
MinSeq(s) ==
    IF Len(s) = 1 THEN s[1]
    ELSE LET m == MinSeq(Tail(s)) IN IF s[1] <= m THEN s[1] ELSE m

\* np.amin in place of np.amax.
amin_axis0(f) == [c \in 1..NCols(f) |-> MinSeq(Column(f, c))]

amax_axis0(f) == [c \in 1..NCols(f) |-> MaxSeq(Column(f, c))]

\* t1.regret_from_best_da
regret_from_best_da(f, maximise) ==
    LET _f == identity(f, maximise)
        best_decision_alternatives == amax_axis0(_f)
    IN [r \in 1..Len(_f) |->
           [c \in 1..Len(_f[r]) |-> _f[r][c] - best_decision_alternatives[c]]]

\* np.subtract(f, values), values of f's shape or of one row (broadcast).
subtract(f, values) ==
    [r \in 1..Len(f) |->
        [c \in 1..Len(f[r]) |->
            f[r][c] - values[IF Len(values) = 1 THEN 1 ELSE r][c]]]

\* t1.regret_from_values
regret_from_values(f, values, maximise) ==
    LET regret == subtract(f, values) IN identity(regret, maximise)

\* np.median(f, axis=1): the two middle values of the sorted row (the same
\* value twice for an odd count); the median is their mean.
RECURSIVE InsertInt(_, _)
InsertInt(x, sorted) ==
    IF sorted = <<>> THEN <<x>>
    ELSE IF sorted[1] <= x
         THEN <<sorted[1]>> \o InsertInt(x, Tail(sorted))
         ELSE <<x>> \o sorted

RECURSIVE SortInts(_)
SortInts(s) ==
    IF s = <<>> THEN <<>> ELSE InsertInt(s[1], SortInts(Tail(s)))

MiddleSum(row) ==
    LET sorted == SortInts(row)
        n == Len(row)
    IN sorted[(n + 1) \div 2] + sorted[n \div 2 + 1]

\* t1.regret_from_median; f - median is kept doubled, as fractions over 2.
regret_from_median(f, maximise) ==
    LET regret2 == [r \in 1..Len(f) |->
                       [c \in 1..Len(f[r]) |-> 2 * f[r][c] - MiddleSum(f[r])]]
        flipped == identity(regret2, maximise)
    IN [r \in 1..Len(f) |->
           [c \in 1..Len(f[r]) |-> Frac(flipped[r][c], 2)]]

\* The caller's array after regret_from_best_da written with an in-place
\* "_f -= best_decision_alternatives": identity hands back f itself when
\* maximising.
f_after_inplace_regret(fn, f, maximise) ==
    IF fn = "regret_from_best_da" /\ maximise
    THEN regret_from_best_da(f, maximise)
    ELSE f

\* The caller's array f after a call of the T1 function fn: identity
\* returns f or a new -f, and the other functions build their results with
\* binary operators, np.subtract, np.median and np.where, which allocate.
f_after_t1(fn, f, maximise) == f

\* satisfice comparing the flipped values with the unflipped threshold.
satisfice_raw_threshold(f, maximise, threshold, accept_equal) ==
    LET _f == identity(f, maximise)
        c == threshold
    IN [r \in 1..Len(_f) |->
           [k \in 1..Len(_f[r]) |->
               IF (IF accept_equal THEN _f[r][k] >= c ELSE _f[r][k] > c)
               THEN 1 ELSE 0]]

\* t1.satisfice; 1.0 and 0.0 are kept as 1 and 0.
satisfice(f, maximise, threshold, accept_equal) ==
    LET _f == identity(f, maximise)
        c == IF maximise THEN threshold ELSE -threshold
    IN [r \in 1..Len(_f) |->
           [k \in 1..Len(_f[r]) |->
               IF (IF accept_equal THEN _f[r][k] >= c ELSE _f[r][k] > c)
               THEN 1 ELSE 0]]

(***************************************************************************)
(* T3: reductions to robustness (metrics/transforms/t3.py).                *)
(***************************************************************************)
\* t3.f_mean: np.mean(f, axis=1), kept as sum / n.
f_mean(f) == [r \in 1..Len(f) |-> Frac(SumSeq(f[r]), Len(f[r]))]

\* f_w_sum with the weights left out (np.sum(f, axis=1)).
f_w_sum_unweighted(f, weights) ==
    IF NCols(f) # Len(weights) THEN Raise("ValueError")
    ELSE Ok([r \in 1..Len(f) |-> SumSeq(f[r])])

\* t3.f_w_sum: np.matmul(f, weights) raises unless len(weights) = k.
f_w_sum(f, weights) ==
    IF NCols(f) # Len(weights) THEN Raise("ValueError")
    ELSE Ok([r \in 1..Len(f) |->
                SumSeq([c \in 1..Len(weights) |-> f[r][c] * weights[c]])])

\* f_skew with the reverse flag ignored.
f_skew_never_reversed(f, reverse) ==
    IF NCols(f) < 3 THEN Raise("IndexError")
    ELSE Ok([r \in 1..Len(f) |->
                Frac(2 * f[r][2] - (f[r][3] + f[r][1]), f[r][3] - f[r][1])])

\* t3.f_skew: f[:, 2] raises IndexError when f has fewer than 3 columns;
\* columns past the third are never read.  Numerator and normaliser are
\* both kept doubled; a zero normaliser gives inf or nan, not an exception.
f_skew(f, reverse) ==
    IF NCols(f) < 3 THEN Raise("IndexError")
    ELSE Ok([r \in 1..Len(f) |->
                LET q10 == f[r][1]
                    q50 == f[r][2]
                    q90 == f[r][3]
                    R2 == IF ~reverse THEN 2 * q50 - (q90 + q10)
                          ELSE (q90 + q10) - 2 * q50
                    normaliser2 == q90 - q10
                IN Frac(R2, normaliser2)])

\* t3.f_kurtosis: f[:, 3] raises IndexError when f has fewer than 4 columns.
f_kurtosis(f) ==
    IF NCols(f) < 4 THEN Raise("IndexError")
    ELSE Ok([r \in 1..Len(f) |->
                LET q10 == f[r][1]
                    q25 == f[r][2]
                    q75 == f[r][3]
                    q90 == f[r][4]
                IN Frac(q90 - q10, q75 - q25)])

(***************************************************************************)
(* The metric composer and the scenario selection all_scenarios are not    *)
(* part of the available sources; they follow sections 4.2 and 4.4 of the  *)
(* specification.                                                          *)
(***************************************************************************)
all_scenarios(f) == f

\* custom_R_metric(t1.identity, t2.all_scenarios, t3.f_mean)(f, maximise)
mean_metric(f, maximise) == f_mean(all_scenarios(identity(f, maximise)))

\* A caller-defined metric taking the auxiliary column 'values':
\* lambda f, values, maximise:
\*     t3.f_mean(t1.regret_from_values(f, values, maximise))
regret_metric(f, values, maximise) ==
    f_mean(regret_from_values(f, values, maximise))

(***************************************************************************)
(* calc.py: tables.                                                        *)
(***************************************************************************)
ColumnOf(t, col) == [k \in 1..Len(t.rows) |-> t.rows[k].vals[col]]
SIdxCol(t) == [k \in 1..Len(t.rows) |-> t.rows[k].s_idx]
LIdxCol(t) == [k \in 1..Len(t.rows) |-> t.rows[k].l_idx]

\* Row order of DataFrame.sort_values(['l_idx', 's_idx']).
RowLE(a, b) ==
    \/ a.l_idx < b.l_idx
    \/ a.l_idx = b.l_idx /\ a.s_idx <= b.s_idx

\* Insert a row after the rows that are not greater (a stable sort).
RECURSIVE InsertRow(_, _)
InsertRow(row, sorted) ==
    IF sorted = <<>> THEN <<row>>
    ELSE IF RowLE(sorted[1], row)
         THEN <<sorted[1]>> \o InsertRow(row, Tail(sorted))
         ELSE <<row>> \o sorted

RECURSIVE SortRows(_)
SortRows(rows) ==
    IF rows = <<>> THEN <<>>
    ELSE InsertRow(rows[Len(rows)], SortRows(SubSeq(rows, 1, Len(rows) - 1)))

\* DataFrame.sort_values without inplace: a new, sorted table.
sort_values(t) == [cols |-> t.cols, rows |-> SortRows(t.rows)]

\* The caller's table after sort_values(..., inplace=True).
table_after_inplace_sort(t) == sort_values(t)

\* The caller's table after the call at line 97: sort_values without
\* inplace leaves the table it is called on as it was.
table_after_sort_values(t) == t

\* calc.sort_f_df: the sorted table is computed and dropped, the argument
\* is returned as it came.
sort_f_df(t) == LET sorted == sort_values(t) IN t

\* Series.unique(): distinct values in order of first appearance.
RECURSIVE unique(_)
unique(s) ==
    IF s = <<>> THEN <<>>
    ELSE LET init == unique(SubSeq(s, 1, Len(s) - 1))
             last == s[Len(s)]
         IN IF last \in Range(init) THEN init ELSE Append(init, last)

\* np.allclose on integers: |a - b| <= atol + rtol * |b| with atol = 1e-8
\* and rtol = 1e-5, that is |a - b| <= floor(|b| / 100000).
isclose(a, b) == Abs(a - b) <= Abs(b) \div 100000

\* np.allclose(a, b) for 1-d a, b: "error" when the shapes do not
\* broadcast, else "true" or "false".
allclose(a, b) ==
    IF Len(a) # Len(b) /\ Len(a) # 1 /\ Len(b) # 1 THEN "error"
    ELSE LET n == IF Len(a) >= Len(b) THEN Len(a) ELSE Len(b)
             x(k) == a[IF Len(a) = 1 THEN 1 ELSE k]
             y(k) == b[IF Len(b) = 1 THEN 1 ELSE k]
         IN IF \A k \in 1..n : isclose(x(k), y(k)) THEN "true" ELSE "false"

\* f_df.loc[f_df['s_idx'] == s_idx]['l_idx'].values
relevant_l_idxs(t, s_idx) ==
    LET keep(row) == row.s_idx = s_idx
    IN LIdxCol([cols |-> t.cols, rows |-> SelectSeq(t.rows, keep)])

\* calc.get_f_df_details: the loop stops at the first scenario whose
\* check raises.
get_f_df_details(t0) ==
    LET t == sort_f_df(t0)
        s == unique(SIdxCol(t))
        l == unique(LIdxCol(t))
        res == [k \in 1..Len(s) |-> allclose(relevant_l_idxs(t, s[k]), l)]
        bad == {k \in 1..Len(s) : res[k] # "true"}
    IN IF bad = {} THEN Ok(<<s, l>>)
       ELSE LET first == CHOOSE k \in bad : \A j \in bad : k <= j
            IN IF res[first] = "error" THEN Raise("ValueError")
               ELSE Raise("AssertionError")

\* np.reshape(values, newshape=(m, n)), row-major.
reshape(values, m, n) ==
    IF Len(values) # m * n THEN Raise("ValueError")
    ELSE Ok([r \in 1..m |-> [c \in 1..n |-> values[(r - 1) * n + c]]])

(***************************************************************************)
(* calc.f_to_R, one action per statement group.                            *)
(***************************************************************************)
\* [col for col in f_df.columns]
df_cols_of(t) == t.cols \cup {"s_idx", "l_idx"}

\* Lines 50-54: every metric's 'f' is a column of the table.
f_metrics_present(rd, t) ==
    \A k \in 1..Len(rd) : rd[k].f \in df_cols_of(t)

\* Line 70: assert kw in df_cols
kw_present(kw, t) == kw \in df_cols_of(t)

\* Lines 68-73: the keyword matrices of one metric, in the order of 'kws';
\* the first keyword whose assert or reshape raises ends the loop.
RECURSIVE build_kwargs(_, _, _, _)
build_kwargs(t, kws, m, n) ==
    IF kws = <<>> THEN Ok(<<>>)
    ELSE LET kw == kws[1]
         IN IF ~kw_present(kw, t) THEN Raise("AssertionError")
            ELSE LET mat == reshape(ColumnOf(t, kw), m, n)
                 IN IF ~mat.ok THEN mat
                    ELSE LET rest == build_kwargs(t, Tail(kws), m, n)
                         IN IF ~rest.ok THEN rest
                            ELSE Ok(<<[kw |-> kw, mat |-> mat.val]>>
                                    \o rest.val)

\* kwargs left as the previous metric's pass of the loop filled it.
kwargs_carried_over(previous) == previous

\* Line 68: kwargs = {} at the start of every pass of the loop.
kwargs_at_pass_start(previous) == <<>>

\* kwargs[kw] = ... for every built keyword, on top of the starting dict.
kwargs_update(start, built) ==
    SelectSeq(start, LAMBDA e : \A j \in 1..Len(built) : built[j].kw # e.kw)
        \o built

KwArg(kwargs, kw) ==
    LET k == CHOOSE j \in 1..Len(kwargs) : kwargs[j].kw = kw
    IN kwargs[k].mat

\* Line 78: R_dict[R_metric]['func'](f, **kwargs)
apply_func(func, f, kwargs, maximise) ==
    CASE func = "mean" -> mean_metric(f, maximise)
      [] func = "regret" -> regret_metric(f, KwArg(kwargs, "values"), maximise)

\* A failure that is swallowed: what was computed so far is returned.
FailReturningPartial(where) ==
    /\ pc' = "done"
    /\ outcome' = "returned"
    /\ error' = where
    /\ ret' = R

\* A failed assert or a raising numpy call: the exception leaves f_to_R,
\* which returns nothing.
Fail(where) ==
    /\ pc' = "done"
    /\ outcome' = "failed"
    /\ error' = where
    /\ ret' = <<>>

CheckColumns ==
    /\ pc = "check_f"
    /\ IF f_metrics_present(R_dict, f_df)
       THEN pc' = "sort" /\ UNCHANGED <<outcome, error, ret>>
       ELSE Fail("f_column")
    /\ UNCHANGED <<f_df, R_dict, df, s_idxs, l_idxs, i, R, calls,
                   tcase, tout>>

Sort ==
    /\ pc = "sort"
    /\ f_df' = table_after_sort_values(f_df)
    /\ df' = sort_f_df(f_df')
    /\ pc' = "details"
    /\ UNCHANGED <<R_dict, s_idxs, l_idxs, i, R, calls, outcome, error,
                   ret, tcase, tout>>

Details ==
    /\ pc = "details"
    /\ LET d == get_f_df_details(df)
       IN IF d.ok
          THEN /\ s_idxs' = d.val[1]
               /\ l_idxs' = d.val[2]
               /\ pc' = "loop"
               /\ UNCHANGED <<outcome, error, ret>>
          ELSE /\ Fail("coverage")
               /\ UNCHANGED <<s_idxs, l_idxs>>
    /\ f_df' = table_after_sort_values(f_df)
    /\ df' = sort_f_df(f_df')
    /\ UNCHANGED <<R_dict, i, R, calls, tcase, tout>>

\* One pass of the loop at line 65.
Metric ==
    /\ pc = "loop"
    /\ i <= Len(R_dict)
    /\ LET R_metric == R_dict[i]
           m == Len(l_idxs)
           n == Len(s_idxs)
           previous == IF calls = <<>> THEN <<>>
                       ELSE calls[Len(calls)].kwargs
           built == build_kwargs(df, R_metric.kws, m, n)
           kwargs == IF built.ok
                     THEN Ok(kwargs_update(kwargs_at_pass_start(previous),
                                           built.val))
                     ELSE built
           f == reshape(ColumnOf(df, R_metric.f), m, n)
       IN IF ~kwargs.ok
          THEN /\ Fail(IF kwargs.err = "AssertionError"
                       THEN "kw_column" ELSE "reshape")
               /\ UNCHANGED <<i, R, calls>>
          ELSE IF ~f.ok
          THEN /\ Fail("reshape")
               /\ UNCHANGED <<i, R, calls>>
          ELSE /\ calls' = Append(calls, [name |-> R_metric.name,
                                          f |-> f.val,
                                          maximise |-> R_metric.maximise,
                                          kwargs |-> kwargs.val])
               /\ R' = Append(R, [name |-> R_metric.name,
                                  vec |-> apply_func(R_metric.func, f.val,
                                                     kwargs.val,
                                                     R_metric.maximise)])
               /\ i' = i + 1
               /\ UNCHANGED <<pc, outcome, error, ret>>
    /\ UNCHANGED <<f_df, R_dict, df, s_idxs, l_idxs, tcase, tout>>

Return ==
    /\ pc = "loop"
    /\ i > Len(R_dict)
    /\ ret' = R
    /\ outcome' = "returned"
    /\ pc' = "done"
    /\ UNCHANGED <<f_df, R_dict, df, s_idxs, l_idxs, i, R, calls, error,
                   tcase, tout>>

(***************************************************************************)
(* Inputs of f_to_R.                                                       *)
(***************************************************************************)
Row(s, l, v) == [s_idx |-> s, l_idx |-> l, vals |-> v]

\* The table of the example at calc.py lines 136-140.
ExampleTable ==
    LET s == <<0, 1, 2, 0, 1, 2, 0, 1, 2, 0, 1, 2>>
        l == <<0, 0, 0, 1, 1, 1, 2, 2, 2, 3, 3, 3>>
        r == <<-4, 4, 12, -2, 3, 8, 3, 2, 1, 3, 3, 3>>
    IN [cols |-> {"return"},
        rows |-> [k \in 1..12 |->
                     Row(s[k], l[k], [c \in {"return"} |-> r[k]])]]

\* A two by two table with every column, restricted to a choice of columns.
SchemaTable(cols) ==
    LET full(k) == [return |-> <<3, 1, 4, 1>>[k],
                    cost   |-> <<5, 9, 2, 6>>[k],
                    values |-> <<1, 0, 2, 1>>[k]]
        s == <<0, 1, 0, 1>>
        l == <<0, 0, 1, 1>>
    IN [cols |-> cols,
        rows |-> [k \in 1..4 |->
                     Row(s[k], l[k], [c \in cols |-> full(k)[c]])]]

RNames == <<"R1", "R2", "R3", "R4">>

MetricChoices ==
    {[f |-> fc, maximise |-> mx, func |-> "mean", kws |-> <<>>] :
        fc \in {"return", "cost"}, mx \in BOOLEAN}
    \cup
    {[f |-> fc, maximise |-> mx, func |-> "regret", kws |-> <<"values">>] :
        fc \in {"return", "cost"}, mx \in BOOLEAN}

Named(ms) ==
    [k \in 1..Len(ms) |->
        [name |-> RNames[k], f |-> ms[k].f, maximise |-> ms[k].maximise,
         func |-> ms[k].func, kws |-> ms[k].kws]]

\* The metric 'Maximin'-like entry of the example, with all_scenarios.
MeanOfReturn ==
    <<[name |-> "R1", f |-> "return", maximise |-> TRUE, func |-> "mean",
       kws |-> <<>>]>>

\* A table of the given (s_idx, l_idx) pairs, in that order.  Every row
\* carries its own position as its 'return' value, so that a matrix shows
\* which row went where.
DataTable(ids) ==
    [cols |-> {"return"},
     rows |-> [k \in 1..Len(ids) |->
                  Row(ids[k][1], ids[k][2], [c \in {"return"} |-> k])]]

Start(t, rd) ==
    /\ f_df = t
    /\ R_dict = rd
    /\ pc = "check_f"
    /\ df = t
    /\ s_idxs = <<>>
    /\ l_idxs = <<>>
    /\ i = 1
    /\ R = <<>>
    /\ calls = <<>>
    /\ outcome = "running"
    /\ error = "none"
    /\ ret = <<>>
    /\ tcase = [fn |-> "none"]
    /\ tout = Raise("none")

\* Any rows in any order, one mean metric.
InitData ==
    \E n \in 1..MaxRows :
        \E ids \in [1..n -> SIds \X LIds] :
            Start(DataTable(ids), MeanOfReturn)

InitExample == Start(ExampleTable, MeanOfReturn)

\* A valid table with any choice of columns, any metric specification.
InitSchema ==
    \E cols \in SUBSET ColNames, n \in 1..MaxMetrics :
        \E ms \in [1..n -> MetricChoices] :
            Start(SchemaTable(cols), Named(ms))

Init == InitData \/ InitExample \/ InitSchema

Next == CheckColumns \/ Sort \/ Details \/ Metric \/ Return

Spec == Init /\ [][Next]_vars

(***************************************************************************)
(* What the claims about f_to_R speak of.                                  *)
(***************************************************************************)
SIdSet(t) == Range(SIdxCol(t))
LIdSet(t) == Range(LIdxCol(t))

RowsAt(t, s, l) ==
    {k \in 1..Len(t.rows) : t.rows[k].s_idx = s /\ t.rows[k].l_idx = l}

\* The rows are the cross-product of the distinct ids, each pair once.
IsFullCross(t) ==
    \A s \in SIdSet(t), l \in LIdSet(t) : Cardinality(RowsAt(t, s, l)) = 1

\* Some pair of the distinct ids has no row.
HasMissing(t) ==
    \E s \in SIdSet(t), l \in LIdSet(t) : RowsAt(t, s, l) = {}

\* The k-th smallest element of a set of integers.
RECURSIVE Ascending(_)
Ascending(S) ==
    IF S = {} THEN <<>>
    ELSE LET lo == CHOOSE x \in S : \A y \in S : x <= y
         IN <<lo>> \o Ascending(S \ {lo})

ValueAt(t, col, s, l) ==
    t.rows[CHOOSE k \in RowsAt(t, s, l) : TRUE].vals[col]

\* Rows by ascending l_idx, columns by ascending s_idx.
ExpectedMatrix(t, col) ==
    LET ls == Ascending(LIdSet(t))
        ss == Ascending(SIdSet(t))
    IN [r \in 1..Len(ls) |->
           [c \in 1..Len(ss) |-> ValueAt(t, col, ss[c], ls[r])]]

AllColumnsPresent ==
    \A k \in 1..Len(R_dict) :
        /\ R_dict[k].f \in f_df.cols
        /\ \A j \in 1..Len(R_dict[k].kws) : R_dict[k].kws[j] \in f_df.cols

\* C1: for a full cross-product table in any row order, the matrix f_to_R
\* hands to a metric has entry [i][j] equal to the table's value for
\* (i-th smallest l_idx, j-th smallest s_idx).
C1_MatrixByAscendingIds ==
    (IsFullCross(f_df) /\ AllColumnsPresent) =>
        \A k \in 1..Len(calls) :
            calls[k].f = ExpectedMatrix(f_df, R_dict[k].f)

\* C2: a table with a missing (s_idx, l_idx) combination makes f_to_R fail
\* before any metric's func is invoked, and nothing is returned.
C2_MissingCombinationFails ==
    HasMissing(f_df) =>
        /\ calls = <<>>
        /\ outcome # "returned"
        /\ (pc = "done" => outcome = "failed")

\* C3: the coverage validation never fails on a full cross-product table,
\* whatever the order of its rows.
C3_FullCrossAccepted ==
    IsFullCross(f_df) => error # "coverage"

\* C4: when a metric names a performance or auxiliary column the table
\* lacks, f_to_R fails and returns no result mapping at all.
C4_AbsentColumnAborts ==
    ~AllColumnsPresent =>
        /\ outcome # "returned"
        /\ ret = <<>>
        /\ (pc = "done" => outcome = "failed")

\* C4 witness: a first metric was computed, a later one names an absent
\* auxiliary column, and the call failed with nothing returned.
C4_Witness ==
    /\ pc = "done"
    /\ ~AllColumnsPresent
    /\ Len(calls) >= 1
    /\ error = "kw_column"
    /\ outcome = "failed"

ExpectedMeans(t, col) == f_mean(ExpectedMatrix(t, col))

\* C5: for a full cross-product table and the metric identity,
\* all_scenarios, f_mean with maximise=True, f_to_R returns under the
\* metric's name one entry per decision alternative, entry i the mean over
\* all scenarios of decision alternative i; for the example table the
\* vector is [4, 3, 2, 3].
C5_MeanPerAlternative ==
    (pc = "done" /\ IsFullCross(f_df) /\ R_dict = MeanOfReturn
       /\ AllColumnsPresent) =>
        /\ outcome = "returned"
        /\ Len(ret) = 1
        /\ ret[1].name = "R1"
        /\ VecEq(ret[1].vec, ExpectedMeans(f_df, "return"))
        /\ (f_df = ExampleTable =>
               VecEq(ret[1].vec, IntVec(<<4, 3, 2, 3>>)))

(***************************************************************************)
(* Direct calls of the T1 and T3 functions: tcase holds the arguments,     *)
(* tout the result once the call was made.                                 *)
(***************************************************************************)
Entries == -MaxVal..MaxVal

Matrices(m, n, E) == [1..m -> [1..n -> E]]

T1Shapes == {<<1, 1>>, <<1, 2>>, <<2, 1>>, <<2, 2>>, <<3, 1>>}
LinShapes == {<<1, 1>>, <<1, 2>>, <<2, 1>>}
Scalars == {-2, -1, 0, 1, 2}

Pending == tout.err = "pending"
Called(fn) == tcase.fn = fn /\ ~Pending

\* a * f1 + b * f2, elementwise.
LinComb(a, f1, b, f2) ==
    [r \in 1..Len(f1) |->
        [c \in 1..Len(f1[r]) |-> a * f1[r][c] + b * f2[r][c]]]

\* The arguments of one direct call.
TArgs ==
    \/ \E fn \in {"identity", "regret_from_best_da", "regret_from_median"},
          sh \in T1Shapes :
           \E f \in Matrices(sh[1], sh[2], Entries), mx \in BOOLEAN :
               tcase = [fn |-> fn, f |-> f, maximise |-> mx]
    \/ \E sh \in T1Shapes :
           \E f \in Matrices(sh[1], sh[2], Entries), mx \in BOOLEAN,
              th \in Entries, ae \in BOOLEAN :
               tcase = [fn |-> "satisfice", f |-> f, maximise |-> mx,
                        threshold |-> th, accept_equal |-> ae]
    \/ \E sh \in T1Shapes :
           \E f \in Matrices(sh[1], sh[2], Entries),
              v \in Matrices(1, sh[2], Entries), mx \in BOOLEAN :
               tcase = [fn |-> "regret_from_values", f |-> f, values |-> v,
                        maximise |-> mx]
    \/ \E f \in Matrices(2, 3, Entries), rv \in BOOLEAN :
           tcase = [fn |-> "f_skew", f |-> f, reverse |-> rv]
    \/ \E n \in 1..MaxCols :
           \E f \in Matrices(1, n, Entries), rv \in BOOLEAN :
               tcase = [fn |-> "f_skew", f |-> f, reverse |-> rv]
    \/ \E n \in 1..MaxCols :
           \E f \in Matrices(1, n, Entries) :
               tcase = [fn |-> "f_kurtosis", f |-> f]
    \/ \E sh \in LinShapes :
           \E f1 \in Matrices(sh[1], sh[2], 0..MaxVal),
              f2 \in Matrices(sh[1], sh[2], 0..MaxVal),
              w \in [1..sh[2] -> Entries],
              a \in Scalars, b \in Scalars :
               tcase = [fn |-> "f_w_sum", f1 |-> f1, f2 |-> f2,
                        weights |-> w, a |-> a, b |-> b]

TFrame == UNCHANGED <<orchVars, tcase>>

\* A T1 call: the argument f is the caller's array.
T1Frame ==
    /\ tcase' = [tcase EXCEPT
                    !.f = f_after_t1(tcase.fn, tcase.f, tcase.maximise)]
    /\ UNCHANGED orchVars

CallIdentity ==
    /\ Pending /\ tcase.fn = "identity"
    /\ tout' = Ok(identity(tcase.f, tcase.maximise))
    /\ T1Frame

CallRegretFromBestDa ==
    /\ Pending /\ tcase.fn = "regret_from_best_da"
    /\ tout' = Ok(regret_from_best_da(tcase.f, tcase.maximise))
    /\ T1Frame

CallSatisfice ==
    /\ Pending /\ tcase.fn = "satisfice"
    /\ tout' = Ok(satisfice(tcase.f, tcase.maximise, tcase.threshold,
                            tcase.accept_equal))
    /\ T1Frame

CallRegretFromValues ==
    /\ Pending /\ tcase.fn = "regret_from_values"
    /\ tout' = Ok(regret_from_values(tcase.f, tcase.values, tcase.maximise))
    /\ T1Frame

CallRegretFromMedian ==
    /\ Pending /\ tcase.fn = "regret_from_median"
    /\ tout' = Ok(regret_from_median(tcase.f, tcase.maximise))
    /\ T1Frame

CallFSkew ==
    /\ Pending /\ tcase.fn = "f_skew"
    /\ tout' = f_skew(tcase.f, tcase.reverse)
    /\ TFrame

CallFKurtosis ==
    /\ Pending /\ tcase.fn = "f_kurtosis"
    /\ tout' = f_kurtosis(tcase.f)
    /\ TFrame

\* f_w_sum(a*f1 + b*f2, weights)
CallFWSum ==
    /\ Pending /\ tcase.fn = "f_w_sum"
    /\ tout' = f_w_sum(LinComb(tcase.a, tcase.f1, tcase.b, tcase.f2),
                       tcase.weights)
    /\ TFrame

InitT ==
    /\ f_df = [cols |-> {}, rows |-> <<>>]
    /\ R_dict = <<>>
    /\ pc = "idle"
    /\ df = [cols |-> {}, rows |-> <<>>]
    /\ s_idxs = <<>>
    /\ l_idxs = <<>>
    /\ i = 1
    /\ R = <<>>
    /\ calls = <<>>
    /\ outcome = "idle"
    /\ error = "none"
    /\ ret = <<>>
    /\ TArgs
    /\ tout = Raise("pending")

NextT ==
    \/ CallIdentity
    \/ CallRegretFromBestDa
    \/ CallSatisfice
    \/ CallRegretFromValues
    \/ CallRegretFromMedian
    \/ CallFSkew
    \/ CallFKurtosis
    \/ CallFWSum

SpecT == InitT /\ [][NextT]_vars

\* C6: identity(f, maximise=True) is f, identity(f, maximise=False) is the
\* elementwise negation of identity(f, maximise=True), and the shape is
\* kept in both cases.
C6_IdentitySign ==
    Called("identity") =>
        /\ tcase.maximise => tout.val = tcase.f
        /\ ~tcase.maximise =>
               /\ tout.val = Neg(identity(tcase.f, TRUE))
               /\ \A r \in 1..Len(tcase.f) : \A c \in 1..Len(tcase.f[r]) :
                      tout.val[r][c] + tcase.f[r][c] = 0
        /\ NRows(tout.val) = NRows(tcase.f)
        /\ NCols(tout.val) = NCols(tcase.f)

C6_Witness ==
    /\ Called("identity")
    /\ ~tcase.maximise
    /\ NRows(tcase.f) = 2 /\ NCols(tcase.f) = 2
    /\ tcase.f[1][1] = 1 /\ tout.val[1][1] = -1

\* C7: every entry of regret_from_best_da(f, maximise) is <= 0 and the
\* maximum of every scenario column is exactly 0, for both values of
\* maximise.
C7_RegretZeroBound ==
    Called("regret_from_best_da") =>
        /\ \A r \in 1..NRows(tout.val) : \A c \in 1..NCols(tout.val) :
               tout.val[r][c] <= 0
        /\ \A c \in 1..NCols(tout.val) :
               \E r \in 1..NRows(tout.val) : tout.val[r][c] = 0
        /\ NRows(tout.val) = NRows(tcase.f)
        /\ NCols(tout.val) = NCols(tcase.f)

C7_Witness ==
    /\ Called("regret_from_best_da")
    /\ ~tcase.maximise
    /\ NRows(tcase.f) = 2 /\ NCols(tcase.f) = 2
    /\ tout.val[1][1] < 0 /\ tout.val[2][2] < 0

Meets(v, t, accept_equal) == IF accept_equal THEN v >= t ELSE v > t

C9_WrongWidthRaises ==
    /\ (Called("f_skew") /\ NCols(tcase.f) # 3) => ~tout.ok
    /\ (Called("f_kurtosis") /\ NCols(tcase.f) # 4) => ~tout.ok

Dot(u, v) == SumSeq([k \in 1..Len(u) |-> u[k] * v[k]])

\* C10: f_w_sum(a*f1 + b*f2, w) = a*f_w_sum(f1, w) + b*f_w_sum(f2, w), and
\* entry i of f_w_sum(f, w) is the dot product of row i of f with w.
C10_WeightedSumLinear ==
    Called("f_w_sum") =>
        LET r1 == f_w_sum(tcase.f1, tcase.weights)
            r2 == f_w_sum(tcase.f2, tcase.weights)
        IN /\ tout.ok /\ r1.ok /\ r2.ok
           /\ Len(tout.val) = NRows(tcase.f1)
           /\ \A k \in 1..NRows(tcase.f1) :
                  /\ tout.val[k] = tcase.a * r1.val[k] + tcase.b * r2.val[k]
                  /\ r1.val[k] = Dot(tcase.f1[k], tcase.weights)
                  /\ r2.val[k] = Dot(tcase.f2[k], tcase.weights)

C10_Witness ==
    /\ Called("f_w_sum")
    /\ NRows(tcase.f1) = 1 /\ NCols(tcase.f1) = 2
    /\ tcase.a = 2 /\ tcase.b = -1
    /\ tcase.f1 = <<<<1, 0>>>> /\ tcase.f2 = <<<<1, 1>>>>
    /\ tcase.weights = <<1, -1>>
    /\ tout.val = <<2>>

NegFrac(a) == Frac(-a.num, a.den)

\* C11: for a 3-column input with q90 # q10, f_skew(f, reverse=False) is
\* (q50 - (q90+q10)/2) / ((q90-q10)/2), f_skew(f, reverse=True) is its
\* negation, and the result lies in [-1, 1] when q10 <= q50 <= q90.
C11_SkewFormula ==
    (Called("f_skew") /\ NCols(tcase.f) = 3) =>
        /\ tout.ok
        /\ Len(tout.val) = NRows(tcase.f)
        /\ \A r \in 1..NRows(tcase.f) :
               LET q10 == tcase.f[r][1]
                   q50 == tcase.f[r][2]
                   q90 == tcase.f[r][3]
                   v == tout.val[r]
                   plain == Frac(2 * q50 - (q90 + q10), q90 - q10)
                   other == f_skew(tcase.f, ~tcase.reverse).val[r]
               IN q90 # q10 =>
                      /\ v.den # 0
                      /\ FracEq(v, IF tcase.reverse THEN NegFrac(plain)
                                   ELSE plain)
                      /\ FracEq(v, NegFrac(other))
                      /\ (q10 <= q50 /\ q50 <= q90) =>
                             Abs(v.num) <= Abs(v.den)

\* C11 witness: a reversed call on q10 < q50 = q90, whose skew is -1.
C11_Witness ==
    /\ Called("f_skew")
    /\ tcase.reverse
    /\ tcase.f = <<<<-1, 1, 1>>>>
    /\ FracEq(tout.val[1], Frac(-1, 1))

(***************************************************************************)
(* Calls of f_to_R and direct calls of the transforms together.            *)
(***************************************************************************)
InitAll == Init \/ InitT

NextAll == Next \/ NextT

SpecAll == InitAll /\ [][NextAll]_vars

T1Functions ==
    {"identity", "regret_from_best_da", "regret_from_values",
     "regret_from_median", "satisfice"}

Flatten(mat) ==
    IF mat = <<>> THEN <<>>
    ELSE [j \in 1..(Len(mat) * Len(mat[1])) |->
             mat[((j - 1) \div Len(mat[1])) + 1][((j - 1) % Len(mat[1])) + 1]]

\* What f_to_R hands to, and gets from, the func of one metric when the
\* table and that metric alone decide it.
OwnMatrix(col) == reshape(ColumnOf(f_df, col), Len(l_idxs), Len(s_idxs)).val

OwnKwargs(metric) ==
    [j \in 1..Len(metric.kws) |->
        [kw |-> metric.kws[j], mat |-> OwnMatrix(metric.kws[j])]]

OwnVector(metric) ==
    apply_func(metric.func, OwnMatrix(metric.f), OwnKwargs(metric),
               metric.maximise)

====
